---- MODULE Spec2Model ----
(***************************************************************************)
(* A model of autorag/synthesizer/render.py: the configuration glue of     *)
(* init() and the rerun-driven chat page of main().                         *)
(*                                                                         *)
(* main() is executed top to bottom once per rerun of the page.  A rerun   *)
(* is caused by one user event (the trigger): a page (re)load, a submitted *)
(* chat question, a click on a button, or a submitted text input.  The     *)
(* session state (messages, feedbacks) persists across reruns, everything  *)
(* else is local to one run.  Texts are modelled as sequences of pieces    *)
(* (literal fragments, tokens, digits), concatenation as \o.               *)
(***************************************************************************)
EXTENDS Integers, Sequences, FiniteSets, TLC

\* ---------------------------------------------------------------- bounds
MaxMessages == 4
MaxTokens == 2
MaxNodes == 2

Questions == {"q1", "q2"}
Hypotheticals == {"h1"}
Reasons == {"r1"}
TemplatePaths == {"", "conf/citation_qa.txt"}

\* The k-th token a response generator yields, and the text of the k-th
\* source node of a response: pairwise distinct, so that order, repetition
\* and omission show in every text built from them.
Token(k) ==
  <<"t1", "t2", "t3", "t4", "t5", "t6", "t7", "t8", "t9">>[k]

NodeText(k) ==
  <<"n1", "n2", "n3", "n4", "n5", "n6", "n7", "n8", "n9">>[k]

\* The source node lists a response may carry: the first n retrieved nodes.
SourceNodeLists ==
  {[k \in 1..n |-> NodeText(k)] : n \in 0..MaxNodes}

\* The configurations cfg.synthesizer.render the page may be started with.
Configs ==
  [enable_cite : BOOLEAN,
   enable_node_expander : BOOLEAN,
   enable_hyde : BOOLEAN,
   citation_qa_template_path : TemplatePaths,
   similarity_top_k : {3},
   citation_chunk_size : {256},
   index_dir : {"index"},
   openai_model_name : {"gpt-4"},
   app_description : {"the docs"}]

VARIABLES
  cfg,             \* cur_cfg of main
  keys,            \* the keys present in st.session_state
  messages,        \* st.session_state.messages
  feedbacks,       \* st.session_state.feedbacks
  widgets,         \* keys of the widgets rendered by the current (or last) run
  trigger,         \* the user event that caused the current (or last) run
  pc,              \* position of the current run in main ("idle": no run)
  outcome,         \* "none" | "running" | "completed" | "raised"
  error,           \* the exception that ended the last run, "" if none
  query_engine,    \* the local query_engine of main
  prompt,          \* the local prompt of main
  full_response,   \* the local full_response of main
  streamed,        \* the tokens response.response_gen has yielded, in order
  source_nodes,    \* the texts of response.source_nodes, once read
  shown,           \* the texts the run has put in message_placeholder, in order
  calls,           \* the HyDE and engine calls the run has issued, in order
  start_messages,  \* messages as they were when the run started
  start_feedbacks  \* feedbacks as they were when the run started

vars ==
  <<cfg, keys, messages, feedbacks, widgets, trigger, pc, outcome, error,
    query_engine, prompt, full_response, streamed, source_nodes, shown, calls,
    start_messages, start_feedbacks>>

\* ------------------------------------------------------------ text pieces
HYDE_HEADER == "=== Non-RAG response ===\n\n"
RAG_HEADER == "\n\n=== RAG response ===\n\n"
REFERENCES_HEADER == "\n\n### References\n\n"
\* The block cursor main appends to the text while it streams.
CURSOR == "|"

Digit(d) ==
  <<"0", "1", "2", "3", "4", "5", "6", "7", "8", "9">>[d + 1]

\* str(n) of a natural number, as its decimal digits.
RECURSIVE Decimal(_)
Decimal(n) ==
  IF n < 10 THEN <<Digit(n)>> ELSE Decimal(n \div 10) \o <<Digit(n % 10)>>

\* The literals that open and close a fenced block (three backquotes).
FENCE_OPEN == "(fence)\n\n"
FENCE_CLOSE == "\n\n(fence)\n\n"

\* Reference numbering the sources from 0, as enumerate does.
Reference_ZeroBased(idx, node_text) ==
  <<"[">> \o Decimal(idx) \o <<"]\n\n", FENCE_OPEN, node_text, FENCE_CLOSE>>

\* f"[{idx+1}]\n\n" + FENCE_OPEN + ref.node.get_text() + FENCE_CLOSE
Reference(idx, node_text) ==
  <<"[">> \o Decimal(idx + 1) \o <<"]\n\n", FENCE_OPEN, node_text, FENCE_CLOSE>>

\* The loop over enumerate(response.source_nodes), from index idx on.
RECURSIVE References(_, _)
References(idx, nodes) ==
  IF idx >= Len(nodes) THEN <<>>
  ELSE Reference(idx, nodes[idx + 1]) \o References(idx + 1, nodes)

Greeting(app_description) ==
  [role |-> "assistant",
   content |-> <<"Ask me a question about ", app_description, "!">>]

\* ------------------------------------------------------------------ init
load_index(index_dir, service_context) ==
  [persist_dir |-> index_dir, service_context |-> service_context]

\* open(path).read() of the template file.
ReadTemplate(path) ==
  <<"template of ", path>>

CITATION_QA_TEMPLATE ==
  <<"library citation template">>

\* The local node_postprocessors after lines 41-44: assigned only when
\* enable_node_expander is true.
NodePostprocessors(index, enable_node_expander) ==
  IF enable_node_expander
  THEN [bound |-> TRUE, value |-> <<[postprocessor |-> "NodeExpander", index |-> index]>>]
  ELSE [bound |-> FALSE, value |-> <<>>]

\* CitationQaTemplate ignoring the configured path.
CitationQaTemplate_IgnoresPath(citation_qa_template_path) ==
  CITATION_QA_TEMPLATE

\* Lines 51-55: the template read from the configured file, or the default
\* of the library when no path is configured.
CitationQaTemplate(citation_qa_template_path) ==
  IF citation_qa_template_path # ""
  THEN ReadTemplate(citation_qa_template_path)
  ELSE CITATION_QA_TEMPLATE

\* init(): the engine it returns, or the exception it raises.
init(index_dir, openai_model_name, citation_cfg, enable_node_expander) ==
  LET llm == [model |-> openai_model_name, temperature |-> 0]
      service_context == [llm |-> llm]
      index == load_index(index_dir, service_context)
      node_postprocessors == NodePostprocessors(index, enable_node_expander)
      citation_qa_template ==
        CitationQaTemplate(citation_cfg.citation_qa_template_path)
  IN  IF citation_cfg.enable_cite
      THEN IF ~node_postprocessors.bound
           THEN [raised |-> "UnboundLocalError", engine |-> [kind |-> "none"]]
           ELSE [raised |-> "",
                 engine |-> [kind |-> "citation",
                             index |-> index,
                             similarity_top_k |-> citation_cfg.similarity_top_k,
                             citation_qa_template |-> citation_qa_template,
                             citation_chunk_size |-> citation_cfg.citation_chunk_size,
                             streaming |-> TRUE,
                             node_postprocessors |-> node_postprocessors.value,
                             metadata_mode |-> "LLM"]]
      ELSE [raised |-> "",
            engine |-> [kind |-> "default",
                        index |-> index,
                        service_context |-> service_context,
                        streaming |-> TRUE]]

\* ------------------------------------------------------- the UI toolkit
\* One user event causes one rerun; a widget reads the event only in that rerun.
NoKey == <<"", 0>>
UpKey(message_id) == <<"thumbs_up", message_id>>
DownKey(message_id) == <<"thumbs_down", message_id>>
ReasonKey(message_id) == <<"reason", message_id>>
ChatKey == <<"chat_input", 0>>

Event(kind, key, text) ==
  [kind |-> kind, key |-> key, text |-> text]

\* st.button(key=...): true only in the rerun caused by a click on it.
button(key, trig) ==
  trig.kind = "click" /\ trig.key = key

\* st.text_input(key=...): the submitted text in the rerun caused by its
\* submission, the empty default otherwise.
text_input(key, trig) ==
  IF trig.kind = "text" /\ trig.key = key THEN trig.text ELSE ""

None ==
  [kind |-> "none", query_str |-> "", embedding_strs |-> <<>>]

Str(s) ==
  [kind |-> "str", query_str |-> s, embedding_strs |-> <<>>]

\* st.chat_input(): the submitted question in the rerun caused by its
\* submission, None otherwise.
chat_input(trig) ==
  IF trig.kind = "chat" THEN Str(trig.text) ELSE None

\* HyDEQueryTransform(include_original=True)(query): the bundle whose
\* embedding strings are the hypothetical answer, then the original query.
HydeBundle(query, hypothetical) ==
  [kind |-> "bundle", query_str |-> query.query_str,
   embedding_strs |-> <<hypothetical, query.query_str>>]

\* ------------------------------------------------ show_feedback_component
\* HasFeedback never finding the record of a message.
HasFeedback_Never(message_id, fbs) ==
  FALSE

\* Lines 77-79: message_id is among the message_ids of the feedbacks.
HasFeedback(message_id, fbs) ==
  \E i \in 1..Len(fbs) : fbs[i].message_id = message_id

show_feedback_component(message_id, fbs, ws, trig) ==
  IF HasFeedback(message_id, fbs)
  THEN [feedbacks |-> fbs, widgets |-> ws]
  ELSE LET up == button(UpKey(message_id), trig)
           fbs1 == IF up
                   THEN Append(fbs, [message_id |-> message_id, is_good |-> TRUE,
                                     feedback |-> ""])
                   ELSE fbs
           down == button(DownKey(message_id), trig)
           reason == IF down THEN text_input(ReasonKey(message_id), trig) ELSE ""
           fbs2 == IF down /\ reason # ""
                   THEN Append(fbs1, [message_id |-> message_id, is_good |-> FALSE,
                                      feedback |-> reason])
                   ELSE fbs1
       IN  [feedbacks |-> fbs2,
            widgets |-> ws \cup {UpKey(message_id), DownKey(message_id)}
                          \cup (IF down THEN {ReasonKey(message_id)} ELSE {})]

\* The loop over enumerate(st.session_state.messages), from message_id on.
RECURSIVE DisplayMessages(_, _, _, _, _)
DisplayMessages(message_id, msgs, fbs, ws, trig) ==
  IF message_id >= Len(msgs) THEN [feedbacks |-> fbs, widgets |-> ws]
  ELSE LET r == IF msgs[message_id + 1].role = "assistant"
                THEN show_feedback_component(message_id, fbs, ws, trig)
                ELSE [feedbacks |-> fbs, widgets |-> ws]
       IN  DisplayMessages(message_id + 1, msgs, r.feedbacks, r.widgets, trig)

\* ------------------------------------------------------------------ Init
Init ==
  /\ cfg \in Configs
  /\ keys = {}
  /\ messages = <<>>
  /\ feedbacks = <<>>
  /\ widgets = {}
  /\ trigger = Event("none", NoKey, "")
  /\ pc = "idle"
  /\ outcome = "none"
  /\ error = ""
  /\ query_engine = [kind |-> "none"]
  /\ prompt = None
  /\ full_response = <<>>
  /\ streamed = <<>>
  /\ source_nodes = <<>>
  /\ shown = <<>>
  /\ calls = <<>>
  /\ start_messages = <<>>
  /\ start_feedbacks = <<>>

\* --------------------------------------------------- a rerun is started
\* The toolkit starts main() again for the event trig; the session state is
\* kept, the locals and the elements of the page are those of the new run.
StartRun(trig) ==
  /\ pc = "idle"
  /\ trigger' = trig
  /\ pc' = "init"
  /\ outcome' = "running"
  /\ error' = ""
  /\ widgets' = {}
  /\ query_engine' = [kind |-> "none"]
  /\ prompt' = None
  /\ full_response' = <<>>
  /\ streamed' = <<>>
  /\ source_nodes' = <<>>
  /\ shown' = <<>>
  /\ calls' = <<>>
  /\ start_messages' = messages
  /\ start_feedbacks' = feedbacks
  /\ UNCHANGED <<cfg, keys, messages, feedbacks>>

\* The page is loaded or rerun without any widget event.
PageRerun ==
  StartRun(Event("rerun", NoKey, ""))

\* The user submits a question in the chat input.
SubmitQuestion ==
  /\ ChatKey \in widgets
  /\ Len(messages) + 2 <= MaxMessages
  /\ \E q \in Questions : StartRun(Event("chat", ChatKey, q))

\* The user clicks a rendered thumbs-up button.
ClickThumbsUp ==
  \E k \in widgets : k[1] = "thumbs_up" /\ StartRun(Event("click", k, ""))

\* The user clicks a rendered thumbs-down button.
ClickThumbsDown ==
  \E k \in widgets : k[1] = "thumbs_down" /\ StartRun(Event("click", k, ""))

\* The user submits a non-empty reason in a rendered text input.
SubmitReason ==
  \E k \in widgets : \E r \in Reasons :
    k[1] = "reason" /\ StartRun(Event("text", k, r))

\* ------------------------------------------------------------- main
\* A run ends with an exception: the page shows it, the session state stays.
Raise(exc) ==
  /\ pc' = "idle"
  /\ outcome' = "raised"
  /\ error' = exc

\* A run reaches the end of main.
Complete ==
  /\ pc' = "idle"
  /\ outcome' = "completed"
  /\ error' = ""

\* Lines 104-119: init() returns the engine.
InitReturns ==
  /\ pc = "init"
  /\ LET r == init(cfg.index_dir, cfg.openai_model_name, cfg, cfg.enable_node_expander)
     IN  /\ r.raised = ""
         /\ query_engine' = r.engine
  /\ pc' = "session"
  /\ UNCHANGED <<cfg, keys, messages, feedbacks, widgets, trigger, outcome, error,
                 prompt, full_response, streamed, source_nodes, shown, calls,
                 start_messages, start_feedbacks>>

\* Lines 104-117: init() raises and ends the run.
InitRaises ==
  /\ pc = "init"
  /\ LET r == init(cfg.index_dir, cfg.openai_model_name, cfg, cfg.enable_node_expander)
     IN  /\ r.raised # ""
         /\ Raise(r.raised)
  /\ UNCHANGED <<cfg, keys, messages, feedbacks, widgets, trigger, query_engine,
                 prompt, full_response, streamed, source_nodes, shown, calls,
                 start_messages, start_feedbacks>>

\* Lines 121-137: the session state is initialised where absent, the chat
\* input is read and a submitted question is appended to the history.
SessionState ==
  /\ pc = "session"
  /\ LET msgs0 == IF "messages" \in keys THEN messages
                  ELSE <<Greeting(cfg.app_description)>>
         p == chat_input(trigger)
     IN  /\ prompt' = p
         /\ messages' = IF p.kind # "none"
                        THEN Append(msgs0, [role |-> "user", content |-> <<p.query_str>>])
                        ELSE msgs0
  /\ feedbacks' = IF "feedbacks" \in keys THEN feedbacks ELSE <<>>
  /\ keys' = keys \cup {"messages", "feedbacks"}
  /\ widgets' = widgets \cup {ChatKey}
  /\ pc' = "display"
  /\ UNCHANGED <<cfg, trigger, outcome, error, query_engine, full_response,
                 streamed, source_nodes, shown, calls, start_messages,
                 start_feedbacks>>

\* ResponseDue holding in every run.
ResponseDue_Always(msgs) ==
  TRUE

\* Line 150: the last message is not from the assistant.
ResponseDue(msgs) ==
  msgs[Len(msgs)].role # "assistant"

\* Lines 139-153: the history is displayed with the feedback components of
\* the assistant messages; a response is due when the last message is not
\* the assistant's.
DisplayHistory ==
  /\ pc = "display"
  /\ LET r == DisplayMessages(0, messages, feedbacks, widgets, trigger)
     IN  /\ feedbacks' = r.feedbacks
         /\ widgets' = r.widgets
  /\ IF ResponseDue(messages)
     THEN /\ pc' = IF cfg.enable_hyde THEN "hyde" ELSE "query"
          /\ UNCHANGED <<outcome, error>>
     ELSE Complete
  /\ full_response' = <<>>
  /\ UNCHANGED <<cfg, keys, messages, trigger, query_engine, prompt, streamed,
                 source_nodes, shown, calls, start_messages, start_feedbacks>>

\* HydeReturns keeping the question as the prompt: the engine is queried
\* with the question, not with the bundle of the transform.
HydeReturns_KeepsQuestion ==
  /\ pc = "hyde"
  /\ prompt.kind = "str"
  /\ \E h \in Hypotheticals :
       full_response' = <<HYDE_HEADER, HydeBundle(prompt, h).embedding_strs[1], RAG_HEADER>>
  /\ calls' = Append(calls, [fn |-> "hyde", arg |-> prompt])
  /\ pc' = "query"
  /\ UNCHANGED <<cfg, keys, messages, feedbacks, widgets, trigger, outcome, error,
                 query_engine, prompt, streamed, source_nodes, shown,
                 start_messages, start_feedbacks>>

\* Lines 154-158: the HyDE transform returns the bundle for the question.
HydeReturns ==
  /\ pc = "hyde"
  /\ prompt.kind = "str"
  /\ \E h \in Hypotheticals :
       /\ prompt' = HydeBundle(prompt, h)
       /\ full_response' = <<HYDE_HEADER, prompt'.embedding_strs[1], RAG_HEADER>>
  /\ calls' = Append(calls, [fn |-> "hyde", arg |-> prompt])
  /\ pc' = "query"
  /\ UNCHANGED <<cfg, keys, messages, feedbacks, widgets, trigger, outcome, error,
                 query_engine, streamed, source_nodes, shown, start_messages,
                 start_feedbacks>>

\* Line 157: the HyDE transform raises (its LLM call fails, or it is handed
\* None, which has no query string).
HydeRaises ==
  /\ pc = "hyde"
  /\ calls' = Append(calls, [fn |-> "hyde", arg |-> prompt])
  /\ Raise(IF prompt.kind = "none" THEN "AttributeError" ELSE "LLMError")
  /\ UNCHANGED <<cfg, keys, messages, feedbacks, widgets, trigger, query_engine,
                 prompt, full_response, streamed, source_nodes, shown,
                 start_messages, start_feedbacks>>

\* Line 160: the engine returns a streaming response.
QueryReturns ==
  /\ pc = "query"
  /\ prompt.kind # "none"
  /\ calls' = Append(calls, [fn |-> "query", arg |-> prompt])
  /\ pc' = "stream"
  /\ UNCHANGED <<cfg, keys, messages, feedbacks, widgets, trigger, outcome, error,
                 query_engine, prompt, full_response, streamed, source_nodes,
                 shown, start_messages, start_feedbacks>>

\* Line 160: the engine raises (retrieval or the LLM call fails, or it is
\* handed None, which has no query string).
QueryRaises ==
  /\ pc = "query"
  /\ calls' = Append(calls, [fn |-> "query", arg |-> prompt])
  /\ Raise(IF prompt.kind = "none" THEN "AttributeError" ELSE "LLMError")
  /\ UNCHANGED <<cfg, keys, messages, feedbacks, widgets, trigger, query_engine,
                 prompt, full_response, streamed, source_nodes, shown,
                 start_messages, start_feedbacks>>

\* StreamToken showing the text without the cursor mark.
StreamToken_NoCursor ==
  /\ pc = "stream"
  /\ Len(streamed) < MaxTokens
  /\ LET ans == Token(Len(streamed) + 1)
     IN
       /\ streamed' = Append(streamed, ans)
       /\ full_response' = full_response \o <<ans>>
       /\ shown' = Append(shown, full_response')
  /\ UNCHANGED <<cfg, keys, messages, feedbacks, widgets, trigger, pc, outcome,
                 error, query_engine, prompt, source_nodes, calls,
                 start_messages, start_feedbacks>>

\* Lines 161-163: the generator yields the next token.
StreamToken ==
  /\ pc = "stream"
  /\ Len(streamed) < MaxTokens
  /\ LET ans == Token(Len(streamed) + 1)
     IN
       /\ streamed' = Append(streamed, ans)
       /\ full_response' = full_response \o <<ans>>
       /\ shown' = Append(shown, full_response' \o <<CURSOR>>)
  /\ UNCHANGED <<cfg, keys, messages, feedbacks, widgets, trigger, pc, outcome,
                 error, query_engine, prompt, source_nodes, calls,
                 start_messages, start_feedbacks>>

\* Line 161: the generator raises while streaming.
StreamRaises ==
  /\ pc = "stream"
  /\ Raise("LLMError")
  /\ UNCHANGED <<cfg, keys, messages, feedbacks, widgets, trigger, query_engine,
                 prompt, full_response, streamed, source_nodes, shown, calls,
                 start_messages, start_feedbacks>>

\* Lines 164-178: the generator is exhausted; the references are added, the
\* final text is shown and stored, the feedback component of the new
\* message is rendered.
StreamEnds ==
  /\ pc = "stream"
  /\ \E nodes \in (IF cfg.enable_cite THEN SourceNodeLists ELSE {<<>>}) :
       /\ source_nodes' = nodes
       /\ full_response' =
            IF cfg.enable_cite
            THEN full_response \o <<REFERENCES_HEADER>> \o References(0, nodes)
            ELSE full_response
  /\ shown' = Append(shown, full_response')
  /\ messages' = Append(messages, [role |-> "assistant", content |-> full_response'])
  /\ LET r == show_feedback_component(Len(messages') - 1, feedbacks, widgets, trigger)
     IN  /\ feedbacks' = r.feedbacks
         /\ widgets' = r.widgets
  /\ Complete
  /\ UNCHANGED <<cfg, keys, trigger, query_engine, prompt, streamed, calls,
                 start_messages, start_feedbacks>>

Next ==
  \/ PageRerun
  \/ SubmitQuestion
  \/ ClickThumbsUp
  \/ ClickThumbsDown
  \/ SubmitReason
  \/ InitReturns
  \/ InitRaises
  \/ SessionState
  \/ DisplayHistory
  \/ HydeReturns
  \/ HydeRaises
  \/ QueryReturns
  \/ QueryRaises
  \/ StreamToken
  \/ StreamRaises
  \/ StreamEnds

Spec ==
  Init /\ [][Next]_vars

\* ------------------------------------------------------- notions of the claims
\* init() has been executed by the current (or last) run.
InitExecuted ==
  outcome # "none" /\ pc # "init"

\* The current (or last) run has displayed the history (lines 139-147).
Displayed ==
  ChatKey \in widgets /\ pc \notin {"session", "display"}

RunEnded ==
  pc = "idle" /\ outcome \in {"completed", "raised"}

Completed ==
  pc = "idle" /\ outcome = "completed"

QueryCalls ==
  {i \in 1..Len(calls) : calls[i].fn = "query"}

HydeCalls ==
  {i \in 1..Len(calls) : calls[i].fn = "hyde"}

\* The last run completed and generated a response.
Answered ==
  Completed /\ QueryCalls # {}

\* The question the run read from the chat input, None without one.
Asked ==
  IF trigger.kind = "chat" THEN Str(trigger.text) ELSE None

\* The content of the last message of the history.
Stored ==
  messages[Len(messages)].content

\* The text full_response starts with, before the first token.
Header ==
  IF prompt.kind = "bundle"
  THEN <<HYDE_HEADER, prompt.embedding_strs[1], RAG_HEADER>>
  ELSE <<>>

IsPrefix(s, t) ==
  Len(s) <= Len(t) /\ SubSeq(t, 1, Len(s)) = s

StripCursor(s) ==
  IF Len(s) > 0 /\ s[Len(s)] = CURSOR THEN SubSeq(s, 1, Len(s) - 1) ELSE s

UserIndices(msgs) ==
  {i \in 1..Len(msgs) : msgs[i].role = "user"}

Max(S) ==
  CHOOSE x \in S : \A y \in S : y <= x

\* ------------------------------------------------------------------- C1
\* C1: for each of the four combinations of enable_cite and
\* enable_node_expander init returns an engine without raising, and the
\* citation engine gets the node expander as its only post-processor when
\* enable_node_expander is true and no post-processor when it is false.
C1_InitReturnsForEveryCombination ==
  InitExecuted =>
    /\ error # "UnboundLocalError"
    /\ query_engine.kind # "none"
    /\ query_engine.kind = "citation" =>
         Len(query_engine.node_postprocessors)
           = (IF cfg.enable_node_expander THEN 1 ELSE 0)

\* ------------------------------------------------------------------- C2
\* C2: an engine init returns has its kind from enable_cite alone: the
\* citation engine with the top-k, chunk size and QA template of the config
\* (the file's text when a path is given, the library default otherwise) when
\* enable_cite is true, the default engine of the index when it is false;
\* either is created with streaming enabled.
C2_EngineSelectedByEnableCite ==
  query_engine.kind # "none" =>
    /\ query_engine.streaming = TRUE
    /\ query_engine.kind = (IF cfg.enable_cite THEN "citation" ELSE "default")
    /\ cfg.enable_cite =>
         /\ query_engine.similarity_top_k = cfg.similarity_top_k
         /\ query_engine.citation_chunk_size = cfg.citation_chunk_size
         /\ query_engine.citation_qa_template
              = (IF cfg.citation_qa_template_path # ""
                 THEN <<"template of ", cfg.citation_qa_template_path>>
                 ELSE <<"library citation template">>)

C2_Witness ==
  /\ query_engine.kind = "citation"
  /\ cfg.citation_qa_template_path # ""
  /\ pc = "session"

\* ------------------------------------------------------------------- C3
\* C3: with enable_hyde the question goes through the HyDE transform first,
\* the engine is queried with the transformed query and the stored answer
\* starts with the Non-RAG section holding the hypothetical answer and the
\* RAG header; without it the transform is never called, the engine is
\* queried with the question as read from the chat input and the stored
\* answer starts with the first streamed token.
C3_HydeIsOptional ==
  /\ ~cfg.enable_hyde =>
       /\ HydeCalls = {}
       /\ \A i \in QueryCalls : calls[i].arg = Asked
       /\ (Answered /\ Len(streamed) > 0) => Stored[1] = streamed[1]
  /\ cfg.enable_hyde =>
       /\ \A i \in HydeCalls : i = 1 /\ calls[i].arg = Asked
       /\ \A i \in QueryCalls :
            /\ i = 2
            /\ calls[1].fn = "hyde"
            /\ calls[i].arg.kind = "bundle"
            /\ calls[i].arg.query_str = calls[1].arg.query_str
            /\ calls[i].arg.embedding_strs[1] \in Hypotheticals
       /\ Answered =>
            /\ Len(Stored) >= 3
            /\ Stored[1] = HYDE_HEADER
            /\ Stored[2] = calls[2].arg.embedding_strs[1]
            /\ Stored[3] = RAG_HEADER
  /\ Cardinality(QueryCalls) <= 1

C3_Witness ==
  Answered /\ cfg.enable_hyde /\ Len(streamed) = 2 /\ trigger.text = "q2"

\* ------------------------------------------------------------------- C4
\* C4: the text shown after the k-th token is the header (if any) and the
\* first k tokens in generation order, followed by the cursor; every shown
\* text extends the one before; the last text shown has no cursor and is the
\* content of the assistant message appended to the history.
C4_StreamingDisplay ==
  /\ Len(shown) >= Len(streamed)
  /\ \A k \in 1..Len(streamed) :
       shown[k] = Header \o SubSeq(streamed, 1, k) \o <<CURSOR>>
  /\ \A k \in 2..Len(shown) :
       IsPrefix(StripCursor(shown[k - 1]), StripCursor(shown[k]))
  /\ Answered =>
       /\ Len(shown) = Len(streamed) + 1
       /\ shown[Len(shown)] = Stored
       /\ StripCursor(Stored) = Stored
       /\ Len(messages) = Len(start_messages) + (IF trigger.kind = "chat" THEN 2 ELSE 1)
       /\ messages[Len(messages)].role = "assistant"

C4_Witness ==
  Answered /\ Len(streamed) = 2 /\ cfg.enable_hyde /\ cfg.enable_cite

\* ------------------------------------------------------------------- C5
\* C5: with enable_cite the stored answer is the streamed text (after the
\* HyDE header, if any) followed by one References section that lists every
\* source node once, in the order of response.source_nodes, numbered from 1
\* with its text; without enable_cite it has no References section.
C5_References ==
  Answered =>
    LET body == Header \o streamed
        n == Len(source_nodes)
        at(i) == Len(body) + 1 + 6 * (i - 1)
    IN  /\ IsPrefix(body, Stored)
        /\ cfg.enable_cite =>
             /\ Len(Stored) = Len(body) + 1 + 6 * n
             /\ Stored[Len(body) + 1] = REFERENCES_HEADER
             /\ Cardinality({j \in 1..Len(Stored) : Stored[j] = REFERENCES_HEADER}) = 1
             /\ \A i \in 1..n :
                  SubSeq(Stored, at(i) + 1, at(i) + 6)
                    = <<"[", Digit(i), "]\n\n", FENCE_OPEN, source_nodes[i], FENCE_CLOSE>>
        /\ ~cfg.enable_cite =>
             /\ Stored = body
             /\ \A j \in 1..Len(Stored) : Stored[j] # REFERENCES_HEADER

C5_Witness ==
  Answered /\ cfg.enable_cite /\ Len(source_nodes) = 2 /\ Len(streamed) = 1

\* ------------------------------------------------------------------- C6
\* C6: after a click on thumbs-down and the submission of a non-empty reason
\* the record {message_id, is_good: False, feedback: reason} is appended: at
\* the latest when the rerun caused by the submission has completed.
C6_ThumbsDownIsRecorded ==
  (Completed /\ trigger.kind = "text" /\ trigger.text # "") =>
    \E i \in 1..Len(feedbacks) :
      feedbacks[i] = [message_id |-> trigger.key[2], is_good |-> FALSE,
                      feedback |-> trigger.text]

\* ------------------------------------------------------------------- C7
\* C7: feedbacks holds at most one record per message_id, each for an
\* assistant message of the history; the rerun of a thumbs-up click appends
\* exactly the record {message_id, is_good: True, feedback: ''} when the
\* message had none; a message
\* that had a record when a rerun started gets no feedback widget in it.
C7_FeedbackRecords ==
  /\ \A i, j \in 1..Len(feedbacks) :
       feedbacks[i].message_id = feedbacks[j].message_id => i = j
  /\ \A i \in 1..Len(feedbacks) :
       /\ feedbacks[i].message_id + 1 \in 1..Len(messages)
       /\ messages[feedbacks[i].message_id + 1].role = "assistant"
  /\ (Displayed /\ trigger.kind = "click" /\ trigger.key[1] = "thumbs_up"
        /\ \A i \in 1..Len(start_feedbacks) :
             start_feedbacks[i].message_id # trigger.key[2]) =>
       feedbacks = Append(start_feedbacks,
                          [message_id |-> trigger.key[2], is_good |-> TRUE,
                           feedback |-> ""])
  /\ \A i \in 1..Len(start_feedbacks) : \A k \in widgets :
       k[1] \in {"thumbs_up", "thumbs_down", "reason"}
         => k[2] # start_feedbacks[i].message_id

C7_Witness ==
  /\ Displayed
  /\ trigger.kind = "click" /\ trigger.key[1] = "thumbs_up"
  /\ Len(feedbacks) = 2
  /\ \E k \in widgets : k[1] = "thumbs_up" /\ k[2] = feedbacks[2].message_id

\* ------------------------------------------------------------------- C8
\* C8: at the end of every run that completes without an exception the
\* history is non-empty, starts with the greeting, alternates assistant,
\* user, assistant, ... and ends with an assistant message.
C8_RolesAlternate ==
  Completed =>
    /\ Len(messages) > 0
    /\ messages[1] = Greeting(cfg.app_description)
    /\ \A i \in 1..Len(messages) :
         messages[i].role = (IF i % 2 = 1 THEN "assistant" ELSE "user")
    /\ messages[Len(messages)].role = "assistant"

C10_QuestionIsLastUserMessage ==
  \A i \in 1..Len(calls) :
    /\ UserIndices(messages) # {}
    /\ calls[i].arg.kind # "none"
    /\ <<calls[i].arg.query_str>> = messages[Max(UserIndices(messages))].content

====
